---- MODULE Spec2Model ----
(***************************************************************************)
(* Image payload normalisation of tool results (src/agents/pi-tools.ts)    *)
(* and the two image backends behind it (src/media/image-ops.ts).          *)
(*                                                                         *)
(* Strings are modelled by what the code reads of them:                    *)
(*   - a base64 payload is [pad, body]: pad says that the string carries   *)
(*     leading/trailing whitespace, body is the encoded buffer;            *)
(*   - a buffer is [sig, len, w, h]: its magic bytes, the length of its    *)
(*     base64 text, and the pixel size of the picture it holds;            *)
(*   - a text is a sequence of string tokens.                              *)
(***************************************************************************)
EXTENDS Integers, Sequences, FiniteSets, TLC

VARIABLES
    env,      \* process-wide configuration read by prefersSips
    opts,     \* opts.maxDimensionPx of the running sanitize call
    label,    \* label of the running sanitize call
    blocks,   \* input content of the running sanitize call
    out,      \* `out` of sanitizeContentBlocksImages
    log,      \* what happened while handling each block (observer)
    pc,       \* "idle" | "run" | "done" | "raised"
    err,      \* the error raised to the caller, if any
    rd,       \* the read tool's last normalizeReadImageResult call (observer)
    rz,       \* the last direct resizeToJpeg call (observer)
    dirs,     \* temporary directories that exist on disk
    calls     \* external-tool calls in flight (withTempDir); gone: the
              \* directory did not exist when the call returned

vars == <<env, opts, label, blocks, out, log, pc, err, rd, rz, dirs, calls>>

----------------------------------------------------------------------------
(* Bounds *)

MaxDim == 3        \* largest pixel dimension of an input picture
MaxRich == 1       \* content length under SpecBlock (all block variants)
MaxBlocks == 2     \* content length under SpecSeq
MaxRead == 2       \* content length of a read-tool result
MaxCalls == 2      \* concurrent external-tool calls
MaxDirs == 2       \* directory names mkdtemp may draw

(* Program constants *)

MAX_IMAGE_DIMENSION_PX == 2000

----------------------------------------------------------------------------
(* Small helpers *)

Max(a, b) == IF a >= b THEN a ELSE b
Min(a, b) == IF a <= b THEN a ELSE b

Undefined == "undefined"

ImageMimes == {"image/png", "image/jpeg", "image/jpg", "image/webp", "IMAGE/JPEG"}

\* sniffed.startsWith("image/")
StartsWithImage(m) == m \in ImageMimes

\* String.prototype.toLowerCase on the MIME strings of the model
ToLowerCase(m) == IF m = "IMAGE/JPEG" THEN "image/jpeg" ELSE m

\* String.prototype.trim
Trim(s) == [s EXCEPT !.pad = FALSE]

\* !s  (the empty string)
IsEmptyString(s) == ~s.pad /\ s.body.len = 0

\* Buffer.from(base64, "base64") and buf.toString("base64")
Decode(s) == s.body
Encode(buf) == [pad |-> FALSE, body |-> buf]

EmptyBuf == [sig |-> "NONE", len |-> 0, w |-> 0, h |-> 0]

\* detectMime of ../media/mime.js: classification by magic bytes
DetectMime(buf) ==
    CASE buf.sig = "PNG"  -> "image/png"
      [] buf.sig = "JPEG" -> "image/jpeg"
      [] buf.sig = "WEBP" -> "image/webp"
      [] buf.sig = "PDF"  -> "application/pdf"
      [] OTHER            -> Undefined

sniffMimeFromBase64(base64) ==
    LET trimmed == Trim(base64)
        take == Min(256, trimmed.body.len)
        sliceLen == take - (take % 4)
    IN  IF IsEmptyString(trimmed) THEN Undefined
        ELSE IF sliceLen < 8 THEN Undefined
        ELSE DetectMime(Decode(trimmed))

----------------------------------------------------------------------------
(* Backend selection: image-ops.ts *)

Overrides == {"unset", "sharp", "sips", "other"}
Env == [override : Overrides, bun : BOOLEAN, platform : {"darwin", "linux"}]

isBun(e) == e.bun

\* Mutant: the override cannot ask for the external tool
prefersSips_NoOverride(e) ==
    e.override # "sharp" /\ isBun(e) /\ e.platform = "darwin"

prefersSips(e) ==
    \/ e.override = "sips"
    \/ (e.override # "sharp" /\ isBun(e) /\ e.platform = "darwin")

----------------------------------------------------------------------------
(* Metadata probe: image-ops.ts *)

ProbeOutcome == {"ok", "null", "throw"}
CallOutcome == {"ok", "throw"}

NullMeta == [known |-> FALSE, width |-> 0, height |-> 0]

\* The value and the exit of one backend probe: the size read from the
\* buffer, null for missing / unparsable / non-positive sizes, or a throw.
BackendProbe(buffer, po) ==
    IF po = "ok" /\ buffer.w > 0 /\ buffer.h > 0
    THEN [kind |-> "ok", meta |-> [known |-> TRUE, width |-> buffer.w, height |-> buffer.h]]
    ELSE IF po = "throw" THEN [kind |-> "throw", meta |-> NullMeta]
    ELSE [kind |-> "ok", meta |-> NullMeta]

sipsMetadataFromBuffer(buffer, po) == BackendProbe(buffer, po)

sharpMetadata(buffer, po) == BackendProbe(buffer, po)

getImageMetadata(buffer, e, po) ==
    IF prefersSips(e)
    THEN LET r == sipsMetadataFromBuffer(buffer, po)
         IN  IF r.kind = "throw" THEN NullMeta ELSE r.meta
    ELSE LET r == sharpMetadata(buffer, po)
         IN  IF r.kind = "throw" THEN NullMeta ELSE r.meta

----------------------------------------------------------------------------
(* Resizing: image-ops.ts *)

\* One side of a picture scaled so that its longer side becomes `target`
ScaleSide(side, longer, target) ==
    Max(1, (2 * side * target + longer) \div (2 * longer))

\* sips -Z target: the longer side becomes target (sips has no
\* withoutEnlargement flag), re-encoded as JPEG
SipsScale(buffer, target) ==
    LET longer == Max(buffer.w, buffer.h)
    IN  [sig |-> "JPEG", len |-> 8,
         w |-> ScaleSide(buffer.w, longer, target),
         h |-> ScaleSide(buffer.h, longer, target)]

\* sharp(...).resize({width: side, height: side, fit: "inside",
\* withoutEnlargement}) encoded with signature sig
SharpFitInside(buffer, side, withoutEnlargement, sig) ==
    LET longer == Max(buffer.w, buffer.h)
    IN  IF withoutEnlargement /\ longer <= side
        THEN [sig |-> sig, len |-> 8, w |-> buffer.w, h |-> buffer.h]
        ELSE [sig |-> sig, len |-> 8,
              w |-> ScaleSide(buffer.w, longer, side),
              h |-> ScaleSide(buffer.h, longer, side)]

sipsResizeToJpeg(buffer, maxSide, quality, ro) ==
    LET target == Max(1, maxSide)
        q == Max(1, Min(100, quality))
        call == [backend |-> "sips", target |-> target, quality |-> q]
        via == "resizeToJpeg"
    IN  IF ro = "throw"
        THEN [kind |-> "throw", buf |-> EmptyBuf, err |-> "Error: sips",
              call |-> call, via |-> via]
        ELSE [kind |-> "ok", buf |-> SipsScale(buffer, target), err |-> "",
              call |-> call, via |-> via]

\* withoutEnlargement is "absent", "true" or "false"
resizeToJpeg(buffer, maxSide, quality, withoutEnlargement, e, po, ro) ==
    IF prefersSips(e)
    THEN LET meta == IF withoutEnlargement # "false"
                     THEN getImageMetadata(buffer, e, po) ELSE NullMeta
             maxDim == Max(meta.width, meta.height)
         IN  IF withoutEnlargement # "false" /\ meta.known
                /\ maxDim > 0 /\ maxDim <= maxSide
             THEN sipsResizeToJpeg(buffer, maxDim, quality, ro)
             ELSE sipsResizeToJpeg(buffer, maxSide, quality, ro)
    ELSE LET call == [backend |-> "sharp", target |-> maxSide, quality |-> quality]
             via == "resizeToJpeg"
         IN  IF ro = "throw"
             THEN [kind |-> "throw", buf |-> EmptyBuf, err |-> "Error: sharp",
                   call |-> call, via |-> via]
             ELSE [kind |-> "ok",
                   buf |-> SharpFitInside(buffer, maxSide, withoutEnlargement # "false", "JPEG"),
                   err |-> "",
              call |-> call, via |-> via]

----------------------------------------------------------------------------
(* Content blocks: pi-tools.ts *)

\* "[<label>] omitted empty image payload"
EmptyPayloadText(lbl) == <<"[">> \o lbl \o <<"] omitted empty image payload">>

\* "[<label>] omitted image payload: <String(err)>"
OmittedPayloadText(lbl, e) == <<"[">> \o lbl \o <<"] omitted image payload: ", e>>

TextBlock(t) == [type |-> "text", text |-> t]

\* Mutant: looks at the type tag alone
isImageBlock_TypeOnly(block) == block.type = "image"

isImageBlock(block) ==
    block.type = "image" /\ block.hasData /\ block.hasMime

isTextBlock(block) == block.type = "text"

\* The encoder resizeImageBase64IfNeeded picks for a lower-cased MIME type
EncoderSig(mime) ==
    IF mime = "image/jpeg" \/ mime = "image/jpg" THEN "JPEG"
    ELSE IF mime = "image/webp" THEN "WEBP"
    ELSE "PNG"

\* The try block of resizeImageBase64IfNeeded: import("sharp"), resize, encode
sharpResize(buf, maxDimensionPx, mime, no) ==
    IF no = "throw"
    THEN [kind |-> "throw", buf |-> EmptyBuf, err |-> "Error: sharp", via |-> "inline",
          call |-> [backend |-> "sharp", target |-> maxDimensionPx, quality |-> 85]]
    ELSE [kind |-> "ok",
          buf |-> SharpFitInside(buf, maxDimensionPx, TRUE, EncoderSig(mime)),
          err |-> "", via |-> "inline",
          call |-> [backend |-> "sharp", target |-> maxDimensionPx, quality |-> 85]]

\* oc = [p1, n1, p2, r2]: the exits of the probe, of the native resize, and of
\* the probe and the resize inside the resizeToJpeg fallback
\* (a call that is not reached has no exit to draw: it is left at "ok")
Outcomes ==
    { oc \in [p1 : ProbeOutcome, n1 : CallOutcome, p2 : ProbeOutcome, r2 : CallOutcome] :
        /\ (oc.p1 # "ok" => oc.n1 = "ok")
        /\ (oc.n1 = "ok" => oc.p2 = "ok" /\ oc.r2 = "ok") }

\* No backend is called for a block that is no image or has an empty payload
QuietOutcome == [p1 |-> "ok", n1 |-> "ok", p2 |-> "ok", r2 |-> "ok"]

OutcomesFor(block) ==
    IF block.type = "image" /\ block.hasData /\ block.hasMime
       /\ ~IsEmptyString(Trim(block.data))
    THEN Outcomes ELSE {QuietOutcome}

NoLog == [probe |-> "none", nativeThrew |-> FALSE, fallback |-> "none",
          raised |-> FALSE, resized |-> FALSE]

\* Mutant: passes a picture through as soon as one of its sides fits
SkipsResize_EitherSide(meta, maxDimensionPx) ==
    ~meta.known \/ meta.width <= maxDimensionPx \/ meta.height <= maxDimensionPx

\* Mutant: never passes a picture through
SkipsResize_Never(meta, maxDimensionPx) == FALSE

\* The early return of resizeImageBase64IfNeeded: the size is unknown, or
\* both sides fit
SkipsResize(meta, maxDimensionPx) ==
    ~meta.known
    \/ (meta.width <= maxDimensionPx /\ meta.height <= maxDimensionPx)

\* Mutant: no catch around the native resize
ResizeWithFallback_NoCatch(buf, maxDimensionPx, mime, e, oc) ==
    sharpResize(buf, maxDimensionPx, mime, oc.n1)

\* try { native resize } catch { resizeToJpeg(...) }
ResizeWithFallback(buf, maxDimensionPx, mime, e, oc) ==
    LET native == sharpResize(buf, maxDimensionPx, mime, oc.n1)
    IN  IF native.kind = "ok" THEN native
        ELSE resizeToJpeg(buf, maxDimensionPx, 85, "true", e, oc.p2, oc.r2)

resizeImageBase64IfNeeded(base64, mimeType, maxDimensionPx, e, oc) ==
    LET buf == Decode(base64)
        meta == getImageMetadata(buf, e, oc.p1)
    IN  IF SkipsResize(meta, maxDimensionPx)
        THEN [kind |-> "ok", base64 |-> base64, mimeType |-> mimeType, err |-> "",
              log |-> [NoLog EXCEPT !.probe = oc.p1]]
        ELSE LET mime == ToLowerCase(mimeType)
                 res == ResizeWithFallback(buf, maxDimensionPx, mime, e, oc)
                 lg == [probe |-> oc.p1,
                        nativeThrew |-> oc.n1 = "throw",
                        fallback |-> IF res.via = "resizeToJpeg"
                                     THEN res.call.backend ELSE "none",
                        raised |-> res.kind = "throw",
                        resized |-> res.kind = "ok"]
             IN  IF res.kind = "throw"
                 THEN [kind |-> "throw", base64 |-> base64, mimeType |-> mimeType,
                       err |-> res.err, log |-> lg]
                 ELSE LET sniffed == DetectMime(res.buf)
                          nextMime == IF StartsWithImage(sniffed) THEN sniffed ELSE mimeType
                      IN  [kind |-> "ok", base64 |-> Encode(res.buf), mimeType |-> nextMime,
                           err |-> "", log |-> lg]

\* Math.max(opts.maxDimensionPx ?? MAX_IMAGE_DIMENSION_PX, 1)
maxDimensionPx(o) ==
    Max(IF o.given THEN o.value ELSE MAX_IMAGE_DIMENSION_PX, 1)

\* Mutant: no try/catch around resizeImageBase64IfNeeded
SanitizeBlock_NoCatch(block, lbl, maxDim, e, oc) ==
    IF ~isImageBlock(block)
    THEN [threw |-> FALSE, block |-> block, err |-> "", log |-> NoLog]
    ELSE LET data == Trim(block.data)
         IN  IF IsEmptyString(data)
             THEN [threw |-> FALSE, block |-> TextBlock(EmptyPayloadText(lbl)),
                   err |-> "", log |-> NoLog]
             ELSE LET resized == resizeImageBase64IfNeeded(data, block.mimeType, maxDim, e, oc)
                  IN  [threw |-> resized.kind = "throw",
                       block |-> [block EXCEPT !.data = resized.base64,
                                               !.mimeType = resized.mimeType],
                       err |-> resized.err, log |-> resized.log]

\* One iteration of the loop of sanitizeContentBlocksImages
SanitizeBlock(block, lbl, maxDim, e, oc) ==
    IF ~isImageBlock(block)
    THEN [threw |-> FALSE, block |-> block, err |-> "", log |-> NoLog]
    ELSE LET data == Trim(block.data)
         IN  IF IsEmptyString(data)
             THEN [threw |-> FALSE, block |-> TextBlock(EmptyPayloadText(lbl)),
                   err |-> "", log |-> NoLog]
             ELSE LET resized == resizeImageBase64IfNeeded(data, block.mimeType, maxDim, e, oc)
                  IN  IF resized.kind = "throw"
                      THEN [threw |-> FALSE,
                            block |-> TextBlock(OmittedPayloadText(lbl, resized.err)),
                            err |-> "", log |-> resized.log]
                      ELSE [threw |-> FALSE,
                            block |-> [block EXCEPT !.data = resized.base64,
                                                    !.mimeType = resized.mimeType],
                            err |-> "", log |-> resized.log]

----------------------------------------------------------------------------
(* Inputs *)

\* small, wide and tall pictures
Dims == {<<1, 1>>, <<MaxDim, 1>>, <<1, MaxDim>>}
Pictures == {[sig |-> s, len |-> 8, w |-> d[1], h |-> d[2]] : s \in {"PNG", "JPEG"}, d \in Dims}
Payloads == [pad : BOOLEAN, body : Pictures \cup {EmptyBuf}]

ImageBlocks ==
    [type : {"image"}, hasData : {TRUE}, hasMime : {TRUE},
     data : Payloads, mimeType : {"image/png", "IMAGE/JPEG"}]

\* type "image" without a string payload: not an image block for isImageBlock
MalformedImage ==
    [type |-> "image", hasData |-> FALSE, hasMime |-> TRUE,
     data |-> [pad |-> FALSE, body |-> EmptyBuf], mimeType |-> "image/png"]

OtherBlock == [type |-> "other"]

Block == ImageBlocks \cup {MalformedImage, OtherBlock, TextBlock(<<"hello">>)}

\* opts.maxDimensionPx: absent, 0 or 2
NoOpts == [given |-> FALSE, value |-> 0]
Opts == {NoOpts, [given |-> TRUE, value |-> 0], [given |-> TRUE, value |-> 2]}

SeqUpTo(S, n) == UNION {[1..k -> S] : k \in 0..n}

Picture(sig, w, h) == [sig |-> sig, len |-> 8, w |-> w, h |-> h]

ImageBlock(pad, body, mimeType) ==
    [type |-> "image", hasData |-> TRUE, hasMime |-> TRUE,
     data |-> [pad |-> pad, body |-> body], mimeType |-> mimeType]

\* The block variants that take a different path through the loop
SeqBlock ==
    { TextBlock(<<"hello">>), OtherBlock, MalformedImage,
      ImageBlock(TRUE, EmptyBuf, "image/png"),
      ImageBlock(FALSE, Picture("PNG", 1, 1), "image/png"),
      ImageBlock(TRUE, Picture("JPEG", MaxDim, MaxDim), "IMAGE/JPEG") }

IdleCall ==
    [at |-> "idle", kind |-> "none", dir |-> 0, outcome |-> "none", rm |-> "none",
     gone |-> FALSE]

NoRead == [called |-> FALSE]
NoResize == [called |-> FALSE]

----------------------------------------------------------------------------
(* sanitizeContentBlocksImages as a state machine *)

InitSan ==
    /\ env \in Env
    /\ opts = NoOpts
    /\ label = <<"bash">>
    /\ blocks = <<>>
    /\ out = <<>>
    /\ log = <<>>
    /\ pc = "idle"
    /\ err = <<>>
    /\ rd = NoRead
    /\ rz = NoResize
    /\ dirs = {}
    /\ calls = [c \in 1..MaxCalls |-> IdleCall]

SanitizeStart(B, n) ==
    /\ pc = "idle"
    /\ \E content \in SeqUpTo(B, n), o \in Opts :
          /\ blocks' = content
          /\ opts' = o
    /\ label' = <<"bash">>
    /\ out' = <<>>
    /\ log' = <<>>
    /\ pc' = "run"
    /\ UNCHANGED <<env, err, rd, rz, dirs, calls>>

SanitizeStep ==
    /\ pc = "run"
    /\ Len(out) < Len(blocks)
    /\ \E oc \in OutcomesFor(blocks[Len(out) + 1]) :
          LET r == SanitizeBlock(blocks[Len(out) + 1], label, maxDimensionPx(opts), env, oc)
          IN  IF r.threw
              THEN /\ pc' = "raised"
                   /\ err' = <<r.err>>
                   /\ UNCHANGED <<out, log>>
              ELSE /\ out' = Append(out, r.block)
                   /\ log' = Append(log, r.log)
                   /\ UNCHANGED <<pc, err>>
    /\ UNCHANGED <<env, opts, label, blocks, rd, rz, dirs, calls>>

SanitizeReturn ==
    /\ pc = "run"
    /\ Len(out) = Len(blocks)
    /\ pc' = "done"
    /\ UNCHANGED <<env, opts, label, blocks, out, log, err, rd, rz, dirs, calls>>

StartBlock == SanitizeStart(Block, MaxRich)

NextBlock == StartBlock \/ SanitizeStep \/ SanitizeReturn

SpecBlock == InitSan /\ [][NextBlock]_vars

StartSeq == SanitizeStart(SeqBlock, MaxBlocks)

NextSeq == StartSeq \/ SanitizeStep \/ SanitizeReturn

SpecSeq == InitSan /\ [][NextSeq]_vars

----------------------------------------------------------------------------
(* The read tool: normalizeReadImageResult, then the sanitizer *)

HeaderPrefix == "Read image file ["

\* "Read image file [<mime>]"
Header(mime) == <<HeaderPrefix, mime, "]">>

StartsWithHeader(text) == Len(text) >= 1 /\ text[1] = HeaderPrefix
EndsWithBracket(text) == Len(text) >= 2 /\ text[Len(text)] = "]"

\* Mutant: leaves every text as it is
rewriteReadImageHeader_Never(text, mimeType) == text

rewriteReadImageHeader(text, mimeType) ==
    IF StartsWithHeader(text) /\ EndsWithBracket(text)
    THEN Header(mimeType)
    ELSE text

\* content.find(...): the index of the first image block, 0 when there is none
FirstImage(content) ==
    IF \E i \in 1..Len(content) : isImageBlock(content[i])
    THEN CHOOSE i \in 1..Len(content) :
            /\ isImageBlock(content[i])
            /\ \A j \in 1..(i - 1) : ~isImageBlock(content[j])
    ELSE 0

ContentOf(result) == IF result.isArray THEN result.content ELSE <<>>

\* Mutant: tests the payload without trimming it
PayloadIsEmpty_NoTrim(image) == IsEmptyString(image.data)

\* !image.data.trim()
PayloadIsEmpty(image) == IsEmptyString(Trim(image.data))

EmptyPayloadError(filePath) == <<"read: image payload is empty (", filePath, ")">>

NotAnImageError(sniffed, mimeType, filePath) ==
    <<"read: file looks like ", sniffed, " but was treated as ", mimeType, " (", filePath, ")">>

NormalizeBlock(block, sniffed) ==
    IF block.type = "image"
    THEN [block EXCEPT !.mimeType = sniffed, !.hasMime = TRUE]
    ELSE IF block.type = "text"
    THEN [block EXCEPT !.text = rewriteReadImageHeader(block.text, sniffed)]
    ELSE block

normalizeReadImageResult(result, filePath) ==
    LET content == ContentOf(result)
        at == FirstImage(content)
        unchanged == [kind |-> "ok", result |-> result, message |-> <<>>]
    IN  IF at = 0 THEN unchanged
        ELSE LET image == content[at]
                 sniffed == sniffMimeFromBase64(image.data)
             IN  IF PayloadIsEmpty(image)
                 THEN [kind |-> "throw", result |-> result,
                       message |-> EmptyPayloadError(filePath)]
                 ELSE IF sniffed = Undefined THEN unchanged
                 ELSE IF ~StartsWithImage(sniffed)
                 THEN [kind |-> "throw", result |-> result,
                       message |-> NotAnImageError(sniffed, image.mimeType, filePath)]
                 ELSE IF sniffed = image.mimeType THEN unchanged
                 ELSE [kind |-> "ok",
                       result |-> [result EXCEPT !.content =
                                     [i \in 1..Len(content) |-> NormalizeBlock(content[i], sniffed)]],
                       message |-> <<>>]

\* typeof record?.path === "string" ? String(record.path) : "<unknown>"
FilePath(params) == IF params.hasPath THEN params.path ELSE "<unknown>"

ReadPayloads ==
    {[pad |-> p, body |-> b] :
        p \in BOOLEAN, b \in {EmptyBuf, [sig |-> "PNG", len |-> 8, w |-> 1, h |-> 1]}}
    \cup
    {[pad |-> FALSE, body |-> b] :
        b \in {[sig |-> "PNG", len |-> 4, w |-> 1, h |-> 1],
               [sig |-> "JPEG", len |-> 260, w |-> 1, h |-> 1],
               [sig |-> "PDF", len |-> 8, w |-> 0, h |-> 0],
               [sig |-> "NONE", len |-> 8, w |-> 0, h |-> 0]}}

ReadBlock ==
    [type : {"image"}, hasData : {TRUE}, hasMime : {TRUE},
     data : ReadPayloads, mimeType : {"image/png", "image/jpeg"}]
    \cup {MalformedImage, OtherBlock}
    \cup {TextBlock(t) : t \in {Header("image/png"), Header("image/jpeg"), Header("image/gif"),
                                Header("image/jpeg") \o <<" (truncated)">>, <<"hello">>}}

ReadResults ==
    [isArray : {TRUE}, content : SeqUpTo(ReadBlock, MaxRead), details : {"details"}]
    \cup {[isArray |-> FALSE, content |-> <<>>, details |-> "details"]}

ReadParams == {[hasPath |-> TRUE, path |-> "a.png"], [hasPath |-> FALSE, path |-> ""]}

InitRead ==
    /\ env = [override |-> "unset", bun |-> FALSE, platform |-> "linux"]
    /\ opts = NoOpts
    /\ label = <<"bash">>
    /\ blocks = <<>>
    /\ out = <<>>
    /\ log = <<>>
    /\ pc = "idle"
    /\ err = <<>>
    /\ rd = NoRead
    /\ rz = NoResize
    /\ dirs = {}
    /\ calls = [c \in 1..MaxCalls |-> IdleCall]

\* createClawdisReadTool(...).execute, up to the sanitizer's loop
ReadExecute ==
    /\ pc = "idle"
    /\ \E result \in ReadResults, params \in ReadParams :
          LET filePath == FilePath(params)
              normalized == normalizeReadImageResult(result, filePath)
              content == ContentOf(normalized.result)
          IN  /\ rd' = [called |-> TRUE, result |-> result, filePath |-> filePath,
                        kind |-> normalized.kind, normalized |-> normalized.result]
              /\ label' = <<"read:", filePath>>
              /\ IF normalized.kind = "throw"
                 THEN /\ pc' = "raised"
                      /\ err' = normalized.message
                      /\ UNCHANGED <<blocks, out, log>>
                 ELSE IF ~\E i \in 1..Len(content) :
                             isImageBlock(content[i]) \/ isTextBlock(content[i])
                 THEN \* sanitizeToolResultImages returns the result as it is
                      /\ pc' = "done"
                      /\ blocks' = content
                      /\ out' = content
                      /\ log' = [i \in 1..Len(content) |-> NoLog]
                      /\ UNCHANGED err
                 ELSE /\ pc' = "run"
                      /\ blocks' = content
                      /\ out' = <<>>
                      /\ log' = <<>>
                      /\ UNCHANGED err
    /\ UNCHANGED <<env, opts, rz, dirs, calls>>

NextRead == ReadExecute \/ SanitizeStep \/ SanitizeReturn

SpecRead == InitRead /\ [][NextRead]_vars

----------------------------------------------------------------------------
(* resizeToJpeg called directly, under a configuration that may change *)

ResizeBuffers == [sig : {"PNG"}, len : {8}, w : 1..MaxDim, h : 1..MaxDim]
MaxSides == {1, 2, MaxDim + 1}
Qualities == {0, 85, 150}
Enlargement == {"absent", "true", "false"}

\* process.env / the runtime changes between two calls
SetEnv ==
    /\ ~rz.called
    /\ \E e \in Env : e # env /\ env' = e
    /\ UNCHANGED <<opts, label, blocks, out, log, pc, err, rd, rz, dirs, calls>>

\* The caller has taken the result of the call
ResizeReturned ==
    /\ rz.called
    /\ rz' = NoResize
    /\ UNCHANGED <<env, opts, label, blocks, out, log, pc, err, rd, dirs, calls>>

CallResizeToJpeg ==
    /\ ~rz.called
    /\ \E buffer \in ResizeBuffers, maxSide \in MaxSides, quality \in Qualities,
          withoutEnlargement \in Enlargement, po \in ProbeOutcome, ro \in CallOutcome :
          LET r == resizeToJpeg(buffer, maxSide, quality, withoutEnlargement, env, po, ro)
          IN  rz' = [called |-> TRUE, buffer |-> buffer, maxSide |-> maxSide,
                     withoutEnlargement |-> withoutEnlargement,
                     probe |-> IF r.call.backend = "sips" /\ withoutEnlargement # "false"
                               THEN po ELSE "none",
                     kind |-> r.kind, buf |-> r.buf, call |-> r.call]
    /\ UNCHANGED <<env, opts, label, blocks, out, log, pc, err, rd, dirs, calls>>

NextResize == SetEnv \/ CallResizeToJpeg \/ ResizeReturned

SpecResize == InitSan /\ [][NextResize]_vars

----------------------------------------------------------------------------
(* withTempDir around the external tool, several calls in flight *)

DirNames == 1..MaxDirs
Callers == 1..MaxCalls

\* The exits of the callback of sipsMetadataFromBuffer / sipsResizeToJpeg
FnOutcome(kind) ==
    IF kind = "probe"
    THEN {"ok", "writeFailed", "nonZeroExit", "timeout", "unparsable"}
    ELSE {"ok", "writeFailed", "nonZeroExit", "timeout", "readFailed"}

\* Mutant: removes the directory only after the callback returned
RemovesOnExit_OnlyOnReturn(outcome) == outcome \in {"ok", "unparsable"}

\* try { return await fn(dir) } finally { await fs.rm(dir, ...) }
RemovesOnExit(outcome) == TRUE

\* fs.mkdtemp: a directory that did not exist
MkdtempChoices == DirNames \ dirs

InitTemp ==
    /\ env = [override |-> "sips", bun |-> FALSE, platform |-> "darwin"]
    /\ opts = NoOpts
    /\ label = <<"bash">>
    /\ blocks = <<>>
    /\ out = <<>>
    /\ log = <<>>
    /\ pc = "idle"
    /\ err = <<>>
    /\ rd = NoRead
    /\ rz = NoResize
    /\ dirs = {}
    /\ calls = [c \in Callers |-> IdleCall]

\* withTempDir: fs.mkdtemp(...)
Mkdtemp(c) ==
    /\ calls[c].at = "idle"
    /\ \E kind \in {"probe", "resize"}, d \in MkdtempChoices :
          /\ dirs' = dirs \cup {d}
          /\ calls' = [calls EXCEPT ![c] =
                          [at |-> "fn", kind |-> kind, dir |-> d, outcome |-> "none",
                           rm |-> "none", gone |-> FALSE]]
    /\ UNCHANGED <<env, opts, label, blocks, out, log, pc, err, rd, rz>>

\* withTempDir: await fn(dir), which writes in.img and runs /usr/bin/sips
RunFn(c) ==
    /\ calls[c].at = "fn"
    /\ \E o \in FnOutcome(calls[c].kind) :
          calls' = [calls EXCEPT ![c].at = "finally", ![c].outcome = o]
    /\ UNCHANGED <<env, opts, label, blocks, out, log, pc, err, rd, rz, dirs>>

\* withTempDir: finally { await fs.rm(dir, {recursive, force}).catch(() => {}) }
Finally(c) ==
    /\ calls[c].at = "finally"
    /\ IF RemovesOnExit(calls[c].outcome)
       THEN \E r \in {"removed", "failed"} :
               /\ dirs' = IF r = "removed" THEN dirs \ {calls[c].dir} ELSE dirs
               /\ calls' = [calls EXCEPT ![c].at = "returned", ![c].rm = r,
                                         ![c].gone = calls[c].dir \notin dirs']
       ELSE /\ calls' = [calls EXCEPT ![c].at = "returned",
                                      ![c].gone = calls[c].dir \notin dirs]
            /\ UNCHANGED dirs
    /\ UNCHANGED <<env, opts, label, blocks, out, log, pc, err, rd, rz>>

\* The caller goes on to its next external-tool call
NextCall(c) ==
    /\ calls[c].at = "returned"
    /\ calls' = [calls EXCEPT ![c] = IdleCall]
    /\ UNCHANGED <<env, opts, label, blocks, out, log, pc, err, rd, rz, dirs>>

NextTemp == \E c \in Callers : Mkdtemp(c) \/ RunFn(c) \/ Finally(c) \/ NextCall(c)

SpecTemp == InitTemp /\ [][NextTemp]_vars

----------------------------------------------------------------------------
(* Claims about sanitizeContentBlocksImages *)

Done == 1..Len(out)

\* An image block: tagged "image", with a string payload and a string type
IsImage(block) == block.type = "image" /\ block.hasData /\ block.hasMime

Threshold == maxDimensionPx(opts)

FitsThreshold(buf) == buf.w <= Threshold /\ buf.h <= Threshold

\* The block at index i has a payload that reaches resizeImageBase64IfNeeded
Probed(i) == IsImage(blocks[i]) /\ ~IsEmptyString(Trim(blocks[i].data))

\* C1 as claimed: every image block of the output carries the MIME type sniffed
\* from its own bytes and fits the threshold on both axes.
C1_Original ==
    \A i \in Done :
        IsImage(out[i]) =>
            /\ out[i].mimeType = DetectMime(Decode(out[i].data))
            /\ FitsThreshold(Decode(out[i].data))

\* C1 as amended: an image block of the output is either a resized one, which
\* fits the threshold and carries the MIME type sniffed from the resized bytes,
\* or the input block forwarded with its payload trimmed and its declared MIME
\* type kept (nothing is sniffed), which happens only when the probe reported
\* no size or a size that fits; every other image block became a text block.
C1_ForwardedOrResized ==
    /\ \A i \in Done :
        Probed(i) =>
            \/ out[i].type = "text" /\ log[i].raised
            \/ /\ IsImage(out[i])
               /\ log[i].resized
               /\ FitsThreshold(Decode(out[i].data))
               /\ out[i].mimeType = DetectMime(Decode(out[i].data))
            \/ /\ IsImage(out[i])
               /\ ~log[i].resized
               /\ out[i].data = Trim(blocks[i].data)
               /\ out[i].mimeType = blocks[i].mimeType
               /\ (log[i].probe # "ok" \/ FitsThreshold(Decode(blocks[i].data)))
    /\ \A i \in Done :
        (Probed(i) /\ (log[i].probe # "ok" \/ FitsThreshold(Decode(blocks[i].data)))) =>
            IsImage(out[i]) /\ ~log[i].resized

\* A resized block whose MIME type was corrected, and it fits
C1_Witness ==
    \E i \in Done :
        /\ Probed(i)
        /\ log[i].resized
        /\ ~FitsThreshold(Decode(blocks[i].data))
        /\ FitsThreshold(Decode(out[i].data))
        /\ out[i].mimeType # blocks[i].mimeType

\* The override asks for the external tool, or it does not ask for the native
\* library while the runtime is Bun on darwin
PolicyPicksExternalTool ==
    \/ env.override = "sips"
    \/ (env.override # "sharp" /\ env.bun /\ env.platform = "darwin")

NativeErrorText == TextBlock(OmittedPayloadText(label, "Error: sharp"))

\* C2 as claimed: whenever the native resize throws, the external tool takes
\* over and the native failure does not reach the caller, whatever the
\* override, the runtime and the operating system.
C2_Original ==
    \A i \in Done :
        log[i].nativeThrew =>
            /\ log[i].fallback = "sips"
            /\ out[i] # NativeErrorText

\* C2 as amended: whenever the native resize throws, resizeToJpeg takes over;
\* it uses the external tool when the backend policy picks it, and then the
\* native failure does not reach the caller; otherwise it tries the native
\* library again and a second failure is reported in the block's text
\* placeholder.  In no case does sanitize raise.
C2_FallbackFollowsPolicy ==
    /\ pc # "raised"
    /\ \A i \in Done :
        log[i].nativeThrew =>
            IF PolicyPicksExternalTool
            THEN /\ log[i].fallback = "sips"
                 /\ out[i] # NativeErrorText
            ELSE /\ log[i].fallback = "sharp"
                 /\ (log[i].raised <=> out[i] = NativeErrorText)
                 /\ (~log[i].raised => IsImage(out[i]) /\ log[i].resized)

\* The native resize threw and the external tool produced the picture
C2_Witness ==
    \E i \in Done :
        /\ log[i].nativeThrew
        /\ log[i].fallback = "sips"
        /\ IsImage(out[i])
        /\ Decode(out[i].data).sig = "JPEG"
        /\ FitsThreshold(Decode(out[i].data))

\* The error that leaves resizeImageBase64IfNeeded is the fallback's
EscapedError(i) == IF log[i].fallback = "sips" THEN "Error: sips" ELSE "Error: sharp"

\* C3 as claimed: sanitize never raises, and an exception thrown while probing
\* or resizing block i leaves the text placeholder at index i.
C3_Original ==
    /\ pc # "raised"
    /\ \A i \in Done :
        (log[i].probe = "throw" \/ log[i].nativeThrew \/ log[i].raised) =>
            out[i] = TextBlock(OmittedPayloadText(label, EscapedError(i)))

\* C3 as amended: sanitize never raises and handles every block of the input;
\* an exception that leaves resizeImageBase64IfNeeded for block i puts the text
\* placeholder with that error at index i; an exception thrown while probing is
\* swallowed by the probe and the block is forwarded unresized.  What stands
\* at an index is one of the results of its own block, whatever happened to
\* the blocks before it.
C3_PerBlockCatch ==
    /\ pc # "raised"
    /\ (pc = "done" => Len(out) = Len(blocks))
    /\ \A i \in Done :
          out[i] \in {SanitizeBlock(blocks[i], label, Threshold, env, oc).block :
                         oc \in OutcomesFor(blocks[i])}
    /\ \A i \in Done :
        /\ log[i].raised =>
              out[i] = TextBlock(OmittedPayloadText(label, EscapedError(i)))
        /\ log[i].probe = "throw" =>
              out[i] = [blocks[i] EXCEPT !.data = Trim(blocks[i].data)]

\* A failed block is followed by a block that was still sanitized
C3_Witness ==
    /\ pc = "done"
    /\ Len(out) >= 2
    /\ log[1].raised
    /\ out[1].type = "text"
    /\ IsImage(out[2])

\* C4: the output is as long as the input; a block that is no image block is
\* unchanged at its index; an image block is at its index either an image
\* block or one of the two text placeholders.
C4_ShapePreserved ==
    /\ Len(out) <= Len(blocks)
    /\ (pc = "done" => Len(out) = Len(blocks))
    /\ \A i \in Done :
        IF IsImage(blocks[i])
        THEN \/ IsImage(out[i])
             \/ out[i] = TextBlock(EmptyPayloadText(label))
             \/ out[i] = TextBlock(OmittedPayloadText(label, EscapedError(i)))
        ELSE out[i] = blocks[i]

\* Success, empty payload and pass-through side by side
C4_Witness ==
    /\ pc = "done"
    /\ Len(out) >= 2
    /\ blocks[1] = MalformedImage
    /\ out[1] = MalformedImage
    /\ IsImage(blocks[2])
    /\ out[2] = TextBlock(EmptyPayloadText(label))

\* The probe read the size of block i and both sides fit the threshold
FitsKnown(i) ==
    Probed(i) /\ log[i].probe = "ok" /\ FitsThreshold(Decode(blocks[i].data))

NoResizeCall(i) ==
    ~log[i].resized /\ ~log[i].nativeThrew /\ log[i].fallback = "none" /\ ~log[i].raised

\* C5 as claimed: a picture known to fit is forwarded with its payload string
\* identical, whitespace included, its MIME type unchanged and no resize call.
C5_Original ==
    \A i \in Done :
        FitsKnown(i) =>
            /\ out[i].data = blocks[i].data
            /\ out[i].mimeType = blocks[i].mimeType
            /\ NoResizeCall(i)

\* C5 as amended: a picture known to fit is forwarded with its payload string
\* trimmed of leading and trailing whitespace and otherwise identical (the
\* same bytes), its MIME type unchanged and no resize call.
C5_TrimmedPassThrough ==
    \A i \in Done :
        FitsKnown(i) =>
            /\ out[i] = [blocks[i] EXCEPT !.data = Trim(blocks[i].data)]
            /\ Decode(out[i].data) = Decode(blocks[i].data)
            /\ NoResizeCall(i)

\* A padded payload that fits an explicit threshold
C5_Witness ==
    \E i \in Done :
        /\ FitsKnown(i)
        /\ blocks[i].data.pad
        /\ opts.given
        /\ out[i].data # blocks[i].data

----------------------------------------------------------------------------
(* Claims about the read tool *)

RdContent == ContentOf(rd.result)
RdFirst == RdContent[FirstImage(RdContent)]
RdHasImage == rd.called /\ FirstImage(RdContent) # 0
RdSniffed == sniffMimeFromBase64(RdFirst.data)

\* The first image block sniffs to an image type other than the declared one
RdMislabelled ==
    /\ RdHasImage
    /\ RdSniffed # Undefined
    /\ StartsWithImage(RdSniffed)
    /\ RdSniffed # RdFirst.mimeType

RdRest ==
    /\ rd.kind = "ok"
    /\ rd.normalized.isArray
    /\ rd.normalized.details = rd.result.details
    /\ Len(rd.normalized.content) = Len(RdContent)

\* C6 as claimed: on a mislabelled first image every image block gets the
\* sniffed type, and a text block is rewritten to the header of the sniffed
\* type if and only if its text is exactly the header of the declared type.
C6_Original ==
    RdMislabelled =>
        /\ RdRest
        /\ \A i \in 1..Len(RdContent) :
            LET before == RdContent[i]
                after == rd.normalized.content[i]
            IN  IF before.type = "image"
                THEN after = [before EXCEPT !.mimeType = RdSniffed, !.hasMime = TRUE]
                ELSE IF before.type = "text"
                THEN after.text = IF before.text = Header(RdFirst.mimeType)
                                  THEN Header(RdSniffed) ELSE before.text
                ELSE after = before

\* C6 as amended: on a mislabelled first image every image block gets the
\* sniffed type, and a text block is rewritten to the header of the sniffed
\* type if and only if its text starts with "Read image file [" and ends with
\* "]", whatever stands between; everything else is unchanged.
C6_HeaderPatternRewritten ==
    RdMislabelled =>
        /\ RdRest
        /\ \A i \in 1..Len(RdContent) :
            LET before == RdContent[i]
                after == rd.normalized.content[i]
            IN  IF before.type = "image"
                THEN after = [before EXCEPT !.mimeType = RdSniffed, !.hasMime = TRUE]
                ELSE IF before.type = "text"
                THEN after = TextBlock(IF before.text[1] = HeaderPrefix
                                          /\ before.text[Len(before.text)] = "]"
                                       THEN <<HeaderPrefix, RdSniffed, "]">>
                                       ELSE before.text)
                ELSE after = before

\* A PNG declared as JPEG after its header: both are repaired
C6_Witness ==
    /\ RdMislabelled
    /\ Len(RdContent) = 2
    /\ RdContent[1] = TextBlock(Header("image/jpeg"))
    /\ RdFirst.mimeType = "image/jpeg"
    /\ rd.normalized.content[1] = TextBlock(Header("image/png"))
    /\ rd.normalized.content[2].mimeType = "image/png"

\* The sanitizer has not run
SanitizerNotRun == out = <<>> /\ log = <<>> /\ blocks = <<>>

RdHardError ==
    /\ rd.kind = "throw"
    /\ pc = "raised"
    /\ \E k \in 1..Len(err) : err[k] = rd.filePath
    /\ SanitizerNotRun

\* C7: a first image block whose payload is empty after trimming, or whose
\* bytes sniff to a type that is no image type, raises an error that names
\* the file path before the sanitizer runs; in every other case nothing is
\* raised, and with an unknown sniff or one equal to the declared type the
\* result is returned unchanged.
C7_HardErrors ==
    rd.called =>
        IF RdHasImage /\ IsEmptyString(Trim(RdFirst.data))
        THEN RdHardError /\ err[1] = "read: image payload is empty ("
        ELSE IF RdHasImage /\ RdSniffed # Undefined /\ ~StartsWithImage(RdSniffed)
        THEN RdHardError /\ err[1] = "read: file looks like "
        ELSE /\ rd.kind = "ok"
             /\ pc # "raised"
             /\ err = <<>>
             /\ (~RdMislabelled => rd.normalized = rd.result)

\* A whitespace-only payload read from a named file
C7_Witness ==
    /\ RdHasImage
    /\ RdFirst.data.pad
    /\ RdFirst.data.body = EmptyBuf
    /\ rd.filePath = "a.png"
    /\ pc = "raised"

----------------------------------------------------------------------------
(* Claims about the backends *)

\* C8 as claimed: the external tool is picked exactly when the override does
\* not ask for the native library, the runtime cannot load it and the system
\* is the one that ships the tool.
C8_Original ==
    rz.called =>
        (rz.call.backend = "sips" <=>
            (env.override # "sharp" /\ env.bun /\ env.platform = "darwin"))

\* C8 as amended: the external tool is picked exactly when the override asks
\* for it, or when the override does not ask for the native library, the
\* runtime is Bun and the system is darwin; otherwise the native library is
\* picked.  Each call reads the configuration of the moment.
C8_PolicyTable ==
    rz.called =>
        /\ rz.call.backend \in {"sips", "sharp"}
        /\ rz.call.backend = "sips" <=>
              \/ env.override = "sips"
              \/ (env.override \in {"unset", "other"} /\ env.bun /\ env.platform = "darwin")

\* The override asks for the external tool on a runtime that has the library
C8_Witness ==
    /\ rz.called
    /\ env.override = "sips"
    /\ ~env.bun
    /\ env.platform = "linux"
    /\ rz.call.backend = "sips"

\* C9: with withoutEnlargement not false, a picture that fits maxSide on both
\* axes leaves resizeToJpeg no larger on either axis, and the side given to
\* the external tool is at most the picture's longer side, whatever the
\* backend and whatever the probe returns.
C9_NeverEnlarges ==
    (/\ rz.called
     /\ rz.kind = "ok"
     /\ rz.withoutEnlargement # "false"
     /\ rz.buffer.w <= rz.maxSide
     /\ rz.buffer.h <= rz.maxSide) =>
        /\ rz.buf.w <= rz.buffer.w
        /\ rz.buf.h <= rz.buffer.h
        /\ (rz.call.backend = "sips" =>
               rz.call.target <= Max(rz.buffer.w, rz.buffer.h))

InFlight(c) == calls[c].at \in {"fn", "finally"}

\* C10 as claimed: a call's directory is its own, is gone when the call
\* returns on every exit path, and is never shared by two calls.
C10_Original ==
    /\ \A c \in Callers : calls[c].at = "returned" => calls[c].gone
    /\ \A c, d \in Callers : c # d /\ InFlight(c) /\ InFlight(d) => calls[c].dir # calls[d].dir

\* C10 as amended: a call's directory is its own and is never shared by two
\* calls in flight; on every exit path of the callback the removal is
\* attempted before the call returns, and the directory is gone unless the
\* removal itself failed (that failure is swallowed).
C10_RemovalAttempted ==
    /\ \A c \in Callers :
          /\ InFlight(c) => calls[c].dir \in dirs
          /\ calls[c].at = "returned" =>
                /\ calls[c].rm \in {"removed", "failed"}
                /\ (calls[c].gone <=> calls[c].rm = "removed")
    /\ \A c, d \in Callers : c # d /\ InFlight(c) /\ InFlight(d) => calls[c].dir # calls[d].dir

\* A call that timed out has returned and its directory is gone, while
\* another call is in flight with a directory of its own
C10_Witness ==
    \E c, d \in Callers :
        /\ calls[c].at = "returned"
        /\ calls[c].outcome = "timeout"
        /\ calls[c].rm = "removed"
        /\ calls[c].gone
        /\ InFlight(d)
        /\ calls[d].dir \in dirs

====
